---------------------------- MODULE Spec2Model ----------------------------
(***************************************************************************)
(* Arthatrack: the spending-analytics engine (src/src/lib/aiAnalytics.ts). *)
(*                                                                         *)
(* The engine is two exported functions of a transaction list,             *)
(* analyzeSpendingPatterns and predictNextMonthSpending.  Both read the    *)
(* list they are handed; analyzeSpendingPatterns also reads the wall clock *)
(* (new Date()).  The state machine below holds one caller-supplied list,  *)
(* the wall clock, and the result of the latest call of each function.     *)
(*                                                                         *)
(* Numbers.  JavaScript numbers are modelled as exact rationals plus the   *)
(* three non-finite values NaN, Infinity and -Infinity; rounding of IEEE   *)
(* doubles is not modelled.  A square root is never taken: the standard    *)
(* deviation is carried as its square (the variance), and a comparison     *)
(* against it is decided on the squares.                                   *)
(*                                                                         *)
(* Dates.  A transaction's date is the string 'yyyy-MM-dd', modelled as     *)
(* [y, m, d].  A Date object is carried to the calendar month [y, m] it     *)
(* falls in in the browser's time zone, which is all the engine reads of    *)
(* it; format(date, 'yyyy-MM') is the key y*100 + m (2023-12 is 202312).    *)
(* new Date('yyyy-MM-dd') is midnight UTC of that day: west of UTC it falls *)
(* on the evening before.  Spec keeps the browser at UTC; ZonedSpec lets    *)
(* the time zone vary.                                                      *)
(***************************************************************************)
EXTENDS Integers, Sequences, FiniteSets, TLC

VARIABLES
    transactions,   \* the Transaction[] the caller hands to the engine
    now,            \* the wall clock, new Date(), to the calendar month
    insights,       \* latest analyzeSpendingPatterns call: NotRun or [at, out, error]
    predictions,    \* latest predictNextMonthSpending call: NotRun or [at, out, error]
    timeZone,       \* the browser's offset from UTC, in hours
    categories,     \* Dashboard: the ids of the categories rows fetched
    dashboardInsights,  \* Dashboard: the insights state, what the page displays
    store,          \* offline: the keys of the pending_transactions object store
    nextId,         \* offline: the key autoIncrement gives the next add
    run,            \* offline: each syncPendingTransactions call, where it stands
    uploads,        \* offline: per key, how many syncFn calls have resolved
    budgets,        \* the budgets table: rows per category and month, one user
    form,           \* BudgetForm: each create submission, where it stands
    categoryRows,   \* the categories table: the ids of its rows
    transactionRows,    \* the transactions table: rows per category_id
    localCategories,    \* Categories: the categories state, as ids
    del,            \* Categories: each handleDelete call, where it stands
    isLoading,      \* Dashboard: the isLoading state
    isAnalyzing,    \* Dashboard: the isAnalyzing state
    stats,          \* Dashboard: the stats state
    fetch           \* Dashboard: each fetchDashboardData call, where it stands

engineVars == <<transactions, now, insights, predictions, timeZone, categories, dashboardInsights>>
offlineVars == <<store, nextId, run, uploads>>
budgetVars == <<budgets, form>>
deleteVars == <<categoryRows, transactionRows, localCategories, del>>
loadingVars == <<isLoading, isAnalyzing, stats, fetch>>
pageVars == <<offlineVars, budgetVars, deleteVars, loadingVars>>

vars == <<engineVars, pageVars>>

----------------------------------------------------------------------------
(* JavaScript numbers *)

RECURSIVE GCD(_, _)
GCD(a, b) == IF b = 0 THEN a ELSE GCD(b, a % b)

Abs(i) == IF i < 0 THEN -i ELSE i

NaN == [k |-> "NaN", n |-> 0, d |-> 0]
PosInf == [k |-> "Infinity", n |-> 0, d |-> 0]
NegInf == [k |-> "-Infinity", n |-> 0, d |-> 0]

\* the rational n/d (d # 0) in lowest terms with a positive denominator
Rat(n, d) ==
    IF d = 1 THEN [k |-> "num", n |-> n, d |-> 1]
    ELSE LET g == GCD(Abs(n), Abs(d))
             s == IF d < 0 THEN -1 ELSE 1
         IN  [k |-> "num", n |-> s * (n \div g), d |-> s * (d \div g)]

Num(i) == [k |-> "num", n |-> i, d |-> 1]

IsFinite(a) == a.k = "num"
IsNaN(a) == a.k = "NaN"
Sign(a) ==
    CASE a.k = "Infinity" -> 1
      [] a.k = "-Infinity" -> -1
      [] a.k = "NaN" -> 0
      [] OTHER -> IF a.n > 0 THEN 1 ELSE IF a.n < 0 THEN -1 ELSE 0

Signed(s) == IF s > 0 THEN PosInf ELSE IF s < 0 THEN NegInf ELSE NaN

Neg(a) ==
    CASE a.k = "num" -> [a EXCEPT !.n = -a.n]
      [] a.k = "Infinity" -> NegInf
      [] a.k = "-Infinity" -> PosInf
      [] OTHER -> NaN

\* a + b
Add(a, b) ==
    IF IsFinite(a) /\ IsFinite(b)
    THEN IF a.d = 1 /\ b.d = 1 THEN Num(a.n + b.n)
         ELSE LET g == GCD(a.d, b.d)
              IN  Rat(a.n * (b.d \div g) + b.n * (a.d \div g), (a.d \div g) * b.d)
    ELSE IF IsNaN(a) \/ IsNaN(b) THEN NaN
    ELSE IF IsFinite(a) THEN b
    ELSE IF IsFinite(b) THEN a
    ELSE IF a.k = b.k THEN a ELSE NaN

\* a - b
Sub(a, b) == Add(a, Neg(b))

\* a * b
Mul(a, b) ==
    IF IsFinite(a) /\ IsFinite(b)
    THEN IF a.d = 1 /\ b.d = 1 THEN Num(a.n * b.n)
         ELSE LET g1 == GCD(Abs(a.n), b.d)
                  g2 == GCD(Abs(b.n), a.d)
              IN  Rat((a.n \div g1) * (b.n \div g2), (a.d \div g2) * (b.d \div g1))
    ELSE IF IsNaN(a) \/ IsNaN(b) THEN NaN
    ELSE Signed(Sign(a) * Sign(b))

\* a / b: x/0 is Infinity, -Infinity or (0/0) NaN, never an exception
Div(a, b) ==
    IF IsFinite(a) /\ IsFinite(b)
    THEN IF b.n = 0 THEN Signed(Sign(a))
         ELSE Mul(a, Rat(b.d, b.n))
    ELSE IF IsNaN(a) \/ IsNaN(b) THEN NaN
    ELSE IF IsFinite(a) THEN Num(0)
    ELSE IF IsFinite(b) THEN Signed(Sign(a) * (IF b.n < 0 THEN -1 ELSE 1))
    ELSE NaN

\* a > b and a < b: false as soon as one side is NaN
Gt(a, b) ==
    IF IsNaN(a) \/ IsNaN(b) THEN FALSE
    ELSE IF IsFinite(a) /\ IsFinite(b) THEN a.n * b.d > b.n * a.d
    ELSE IF a.k = b.k THEN FALSE
    ELSE a.k = "Infinity" \/ b.k = "-Infinity"

Lt(a, b) == Gt(b, a)

\* Math.max, Math.min, Math.abs: NaN as soon as one argument is NaN
MathMax(a, b) == IF IsNaN(a) \/ IsNaN(b) THEN NaN ELSE IF Gt(b, a) THEN b ELSE a
MathMin(a, b) == IF IsNaN(a) \/ IsNaN(b) THEN NaN ELSE IF Lt(b, a) THEN b ELSE a
MathAbs(a) == IF Sign(a) < 0 THEN Neg(a) ELSE a

\* x || 0 on a number or undefined: 0 for undefined, 0 and NaN
Undefined == [k |-> "undefined", n |-> 0, d |-> 0]
OrZero(a) == IF a.k = "undefined" \/ IsNaN(a) \/ (IsFinite(a) /\ a.n = 0) THEN Num(0) ELSE a

\* Number.prototype.toFixed(digits), as the integer count of 10^-digits units
\* (rounded half up on the exact value); non-finite values print as themselves;
\* on a value that is no number (undefined, an object) the call is a TypeError
RECURSIVE Pow10(_)
Pow10(e) == IF e = 0 THEN 1 ELSE 10 * Pow10(e - 1)

FloorDiv(n, d) == IF n >= 0 THEN n \div d ELSE -((-n + d - 1) \div d)

toFixed(a, digits) ==
    IF IsFinite(a)
    THEN [k |-> "fixed", digits |-> digits,
          units |-> IF a.n >= 0
                    THEN FloorDiv(2 * a.n * Pow10(digits) + a.d, 2 * a.d)
                    ELSE -FloorDiv(2 * (-a.n) * Pow10(digits) + a.d, 2 * a.d)]
    ELSE IF a.k \in {"NaN", "Infinity", "-Infinity"}
    THEN [k |-> a.k, digits |-> digits, units |-> 0]
    ELSE [k |-> "TypeError", digits |-> digits, units |-> 0]

\* ToNumber of a value handed to Math.min / Math.max: a plain object is NaN
ToNumber(v) == IF v.k \in {"num", "NaN", "Infinity", "-Infinity"} THEN v ELSE NaN

\* Array.prototype.reduce((sum, val) => sum + val, 0) over numbers
RECURSIVE SumFrom(_, _, _)
SumFrom(acc, values, i) ==
    IF i > Len(values) THEN acc ELSE SumFrom(Add(acc, values[i]), values, i + 1)

Sum(values) == SumFrom(Num(0), values, 1)

----------------------------------------------------------------------------
(* date-fns *)

\* new Date('yyyy-MM-dd'): midnight UTC of that day, as the calendar month it
\* falls in in the browser's time zone: west of UTC the first day of a month is
\* still the last evening of the month before
NewDate(date) ==
    IF timeZone < 0 /\ date.d = 1
    THEN IF date.m = 1 THEN [y |-> date.y - 1, m |-> 12] ELSE [y |-> date.y, m |-> date.m - 1]
    ELSE [y |-> date.y, m |-> date.m]

\* format(date, 'yyyy-MM'): the month key
format(date) == date.y * 100 + date.m

\* a predecessor that stays in the year: December of the same year for January
subMonthsWithinYear(date) ==
    IF date.m = 1 THEN [y |-> date.y, m |-> 12] ELSE [y |-> date.y, m |-> date.m - 1]

\* subMonths(date, 1): the calendar predecessor, December of y-1 for January
subMonths(date) ==
    IF date.m = 1 THEN [y |-> date.y - 1, m |-> 12] ELSE [y |-> date.y, m |-> date.m - 1]

\* isWithinInterval(date, {start: startOfMonth(month), end: endOfMonth(month)})
isWithinMonth(date, month) == date.y = month.y /\ date.m = month.m

----------------------------------------------------------------------------
(* Map<string, number>: the entries in insertion order *)

MapHas(map, key) == \E i \in 1..Len(map) : map[i].key = key

MapGet(map, key) ==
    IF MapHas(map, key)
    THEN map[CHOOSE i \in 1..Len(map) : map[i].key = key].val
    ELSE Undefined

\* set keeps the position of a key the map already holds and appends a new one
MapSet(map, key, val) ==
    IF MapHas(map, key)
    THEN [i \in 1..Len(map) |-> IF map[i].key = key THEN [key |-> key, val |-> val] ELSE map[i]]
    ELSE Append(map, [key |-> key, val |-> val])

MapValues(map) == [i \in 1..Len(map) |-> map[i].val]

----------------------------------------------------------------------------
(* ml-regression-simple-linear, as called at aiAnalytics.ts:84-90 *)

\* sum over i of f[i] * g[i]
RECURSIVE DotFrom(_, _, _, _)
DotFrom(acc, f, g, i) ==
    IF i > Len(f) THEN acc ELSE DotFrom(Add(acc, Mul(f[i], g[i])), f, g, i + 1)

Dot(f, g) == DotFrom(Num(0), f, g, 1)

\* new SimpleLinearRegression(x, y): the least-squares slope and intercept
SimpleLinearRegression(x, y) ==
    LET n == Num(Len(x))
        xSum == Sum(x)
        ySum == Sum(y)
        xSquared == Dot(x, x)
        xY == Dot(x, y)
        numerator == Sub(Mul(n, xY), Mul(xSum, ySum))
        slope == Div(numerator, Sub(Mul(n, xSquared), Mul(xSum, xSum)))
        intercept == Sub(Div(ySum, n), Mul(slope, Div(xSum, n)))
    IN  [slope |-> slope, intercept |-> intercept]

\* regression.predict(x)
RegressionPredict(regression, x) == Add(Mul(regression.slope, x), regression.intercept)

\* regression.score(x, y): an object {r, r2, chi2, rmsd}, not a number.  r is the
\* correlation of the fitted values with y; r2 = r * r is carried (r itself is a
\* square root); 0/0 (a fit with no variance) is NaN
RegressionScore(regression, x, y) ==
    LET n == Num(Len(x))
        y2 == [i \in 1..Len(x) |-> RegressionPredict(regression, x[i])]
        xSum == Sum(y2)
        ySum == Sum(y)
        xSquared == Dot(y2, y2)
        ySquared == Dot(y, y)
        xY == Dot(y2, y)
        top == Sub(Mul(n, xY), Mul(xSum, ySum))
        varFit == Sub(Mul(n, xSquared), Mul(xSum, xSum))
        varY == Sub(Mul(n, ySquared), Mul(ySum, ySum))
    IN  [k |-> "object",
         r2 |-> IF Sign(varFit) = 0 \/ Sign(varY) = 0
                THEN Div(Mul(top, top), Mul(varFit, varY))
                ELSE Mul(Div(top, varFit), Div(top, varY))]

----------------------------------------------------------------------------
(* aiAnalytics.ts: helper functions *)

\* no call made yet: no calendar month, no output
Never == [y |-> 0, m |-> 0]
NotRun == [at |-> Never, out |-> <<>>, error |-> "none"]
HasRun(call) == call.at # Never

\* the categories table: transaction.category is the row joined on category_id
CategoryRow(category_id) == [id |-> category_id, name |-> <<"category", category_id>>]

\* category_id INTEGER REFERENCES categories(id) is nullable; SERIAL ids start
\* at 1, and 0 stands for null
Null == 0

\* transaction.category of a transaction whose join found no row, and the
\* name the messages use for it
NoCategory == [id |-> Null, name |-> <<>>]
Uncategorized == <<"Uncategorized">>

\* a name looked up by category_id, with no fallback
CategoryNameWithoutFallback(transaction) == CategoryRow(transaction.category_id).name

\* transaction.category?.name || 'Uncategorized': a missing category and an
\* empty name both give the fallback
CategoryName(transaction) ==
    IF transaction.category = NoCategory \/ transaction.category.name = <<>>
    THEN Uncategorized
    ELSE transaction.category.name

\* Object.entries(groups): integer-like keys in ascending numeric order, then
\* the key "null"
RECURSIVE SortedKeys(_)
SortedKeys(keys) ==
    IF keys = {} THEN <<>>
    ELSE IF keys = {Null} THEN <<Null>>
    ELSE LET least == CHOOSE c \in keys \ {Null} : \A e \in keys \ {Null} : c <= e
         IN  <<least>> \o SortedKeys(keys \ {least})

IsExpense(transaction) == transaction.type = "expense"

groupTransactionsByCategoryNoFilter(txs) ==
    [categoryId \in {txs[i].category_id : i \in 1..Len(txs)} |->
        SelectSeq(txs, LAMBDA t : t.category_id = categoryId)]

\* reduce into an object keyed by category_id, expense transactions only, each
\* group in list order
groupTransactionsByCategory(txs) ==
    [categoryId \in {txs[i].category_id : i \in {j \in 1..Len(txs) : IsExpense(txs[j])}} |->
        SelectSeq(txs, LAMBDA t : IsExpense(t) /\ t.category_id = categoryId)]

ObjectEntries(groups) ==
    LET keys == SortedKeys(DOMAIN groups)
    IN  [i \in 1..Len(keys) |-> [key |-> keys[i], value |-> groups[keys[i]]]]

\* parseInt(categoryId) of an object key: the integer of a key that was an
\* integer category_id, NaN of the key "null"
parseInt(key) == IF key = Null THEN NaN ELSE Num(key)

\* forEach over the list, map.set(monthKey, (map.get(monthKey) || 0) + amount)
RECURSIVE MonthlyFold(_, _, _, _)
MonthlyFold(map, txs, i, expenseOnly) ==
    IF i > Len(txs) THEN map
    ELSE IF expenseOnly /\ ~IsExpense(txs[i]) THEN MonthlyFold(map, txs, i + 1, expenseOnly)
    ELSE LET monthKey == format(NewDate(txs[i].date))
             currentAmount == OrZero(MapGet(map, monthKey))
         IN  MonthlyFold(MapSet(map, monthKey, Add(currentAmount, Num(txs[i].amount))),
                         txs, i + 1, expenseOnly)

calculateMonthlySpending(txs) == MonthlyFold(<<>>, txs, 1, TRUE)

\* one total per calendar month from the earliest to the latest key, 0 for a
\* month without transactions
calculateMonthlyAmountsByCalendar(txs) ==
    LET map == MonthlyFold(<<>>, txs, 1, FALSE)
        index(key) == (key \div 100) * 12 + (key % 100) - 1
        key(i) == (i \div 12) * 100 + (i % 12) + 1
        indexes == {index(map[i].key) : i \in 1..Len(map)}
        first == CHOOSE i \in indexes : \A j \in indexes : i <= j
        last == CHOOSE i \in indexes : \A j \in indexes : j <= i
    IN  IF Len(map) = 0 THEN <<>>
        ELSE [i \in 1..(last - first + 1) |-> OrZero(MapGet(map, key(first + i - 1)))]

\* Array.from(monthlyAmounts.values()): the totals in first-appearance order
calculateMonthlyAmounts(txs) == MapValues(MonthlyFold(<<>>, txs, 1, FALSE))

\* monthlyAmounts.slice(0, -1)
calculateMonthlyAverages(txs) ==
    LET monthlyAmounts == calculateMonthlyAmounts(txs)
    IN  SubSeq(monthlyAmounts, 1, Len(monthlyAmounts) - 1)

\* the sum of the amounts dated within the month of new Date()
calculateCurrentMonthSpending(txs, today) ==
    Sum(LET current == SelectSeq(txs, LAMBDA t : isWithinMonth(NewDate(t.date), today))
        IN  [i \in 1..Len(current) |-> Num(current[i].amount)])

\* Math.sqrt(variance), carried as the variance: the sum of squared differences
\* from the mean, divided by values.length
calculateStandardDeviation(values) ==
    LET mean == Div(Sum(values), Num(Len(values)))
        squaredDiffs == [i \in 1..Len(values) |->
                            Mul(Sub(values[i], mean), Sub(values[i], mean))]
        variance == Div(Sum(squaredDiffs), Num(Len(values)))
    IN  [sqrtOf |-> variance]

\* a > b + factor * Math.sqrt(v), decided on the squares
GtPlusSqrt(a, b, factor, root) ==
    LET diff == Sub(a, b)
    IN  /\ Gt(diff, Num(0))
        /\ Gt(Mul(diff, diff), Mul(Num(factor * factor), root.sqrtOf))

\* Math.min(...values)
RECURSIVE MinFrom(_, _, _)
MinFrom(acc, values, i) ==
    IF i > Len(values) THEN acc ELSE MinFrom(MathMin(acc, values[i]), values, i + 1)

MathMinOf(values) == MinFrom(PosInf, values, 1)

----------------------------------------------------------------------------
(* aiAnalytics.ts: the engine *)

analyzeSpendingTrendNoGuard(monthlySpending, today) ==
    LET currentSpending == OrZero(MapGet(monthlySpending, format(today)))
        lastSpending == OrZero(MapGet(monthlySpending, format(subMonths(today))))
        percentageChange == Mul(Div(Sub(currentSpending, lastSpending), lastSpending), Num(100))
    IN  [trend |-> IF Gt(percentageChange, Num(0)) THEN "up" ELSE "down",
         percentage |-> MathAbs(percentageChange)]

\* the current month against its calendar predecessor
analyzeSpendingTrend(monthlySpending, today) ==
    LET currentMonth == format(today)
        lastMonth == format(subMonths(today))
        currentSpending == OrZero(MapGet(monthlySpending, currentMonth))
        lastSpending == OrZero(MapGet(monthlySpending, lastMonth))
        percentageChange == Mul(Div(Sub(currentSpending, lastSpending), lastSpending), Num(100))
    IN  IF lastSpending = Num(0) THEN [trend |-> "stable", percentage |-> Num(0)]
        ELSE [trend |-> IF Gt(percentageChange, Num(0)) THEN "up" ELSE "down",
              percentage |-> MathAbs(percentageChange)]

\* one category of detectUnusualSpending's loop: what it pushes
UnusualOf(categoryTransactions, today) ==
    LET monthlyAverages == calculateMonthlyAverages(categoryTransactions)
        currentMonthSpending == calculateCurrentMonthSpending(categoryTransactions, today)
        average == Div(Sum(monthlyAverages), Num(Len(monthlyAverages)))
        standardDev == calculateStandardDeviation(monthlyAverages)
        percentage == Mul(Div(Sub(currentMonthSpending, average), average), Num(100))
    IN  IF Len(monthlyAverages) >= 3 /\ GtPlusSqrt(currentMonthSpending, average, 2, standardDev)
        THEN <<[name |-> CategoryName(categoryTransactions[1]), percentage |-> percentage]>>
        ELSE <<>>

RECURSIVE UnusualFrom(_, _, _)
UnusualFrom(entries, i, today) ==
    IF i > Len(entries) THEN <<>>
    ELSE UnusualOf(entries[i].value, today) \o UnusualFrom(entries, i + 1, today)

detectUnusualSpending(txs, today) ==
    UnusualFrom(ObjectEntries(groupTransactionsByCategory(txs)), 1, today)

SavingsOfBelowAverage(categoryTransactions) ==
    LET monthlyAmounts == calculateMonthlyAmounts(categoryTransactions)
        average == Div(Sum(monthlyAmounts), Num(Len(monthlyAmounts)))
        minimum == MathMinOf(monthlyAmounts)
        potentialSavings == Sub(average, minimum)
    IN  IF Len(monthlyAmounts) >= 3 /\ Lt(minimum, average)
        THEN <<[message |-> [text |-> "savings",
                             category |-> CategoryName(categoryTransactions[1]),
                             figures |-> <<toFixed(minimum, 2), toFixed(potentialSavings, 2)>>],
                potentialSavings |-> potentialSavings]>>
        ELSE <<>>

\* one category of findSavingsOpportunities' loop: what it pushes
SavingsOf(categoryTransactions) ==
    LET monthlyAmounts == calculateMonthlyAmounts(categoryTransactions)
        average == Div(Sum(monthlyAmounts), Num(Len(monthlyAmounts)))
        minimum == MathMinOf(monthlyAmounts)
        potentialSavings == Sub(average, minimum)
    IN  IF Len(monthlyAmounts) >= 3 /\ Lt(minimum, Mul(average, Rat(7, 10)))
        THEN <<[message |-> [text |-> "savings",
                             category |-> CategoryName(categoryTransactions[1]),
                             figures |-> <<toFixed(minimum, 2), toFixed(potentialSavings, 2)>>],
                potentialSavings |-> potentialSavings]>>
        ELSE <<>>

RECURSIVE SavingsFrom(_, _)
SavingsFrom(entries, i) ==
    IF i > Len(entries) THEN <<>>
    ELSE SavingsOf(entries[i].value) \o SavingsFrom(entries, i + 1)

findSavingsOpportunities(txs) ==
    SavingsFrom(ObjectEntries(groupTransactionsByCategory(txs)), 1)

\* const insights: SpendingInsight[] = [], local to the call
SharedInsights == insights.out
NewInsights == <<>>

\* a threshold of >= 10 instead of > 10
TrendInsightsFromTenPercent(spendingTrend) ==
    IF spendingTrend.trend = "up" /\ ~Lt(spendingTrend.percentage, Num(10))
    THEN <<[type |-> "warning",
            message |-> [text |-> "increased", category |-> <<>>,
                         figures |-> <<toFixed(spendingTrend.percentage, 1)>>],
            value |-> spendingTrend.percentage, trend |-> "up"]>>
    ELSE IF spendingTrend.trend = "down" /\ ~Lt(spendingTrend.percentage, Num(10))
    THEN <<[type |-> "success",
            message |-> [text |-> "reduced", category |-> <<>>,
                         figures |-> <<toFixed(spendingTrend.percentage, 1)>>],
            value |-> spendingTrend.percentage, trend |-> "down"]>>
    ELSE <<>>

\* spendingTrend.percent: a field the trend object does not have
TrendInsightsOfMissingField(spendingTrend) ==
    IF spendingTrend.trend = "up" /\ Gt(spendingTrend.percentage, Num(10))
    THEN <<[type |-> "warning",
            message |-> [text |-> "increased", category |-> <<>>,
                         figures |-> <<toFixed(Undefined, 1)>>],
            value |-> spendingTrend.percentage, trend |-> "up"]>>
    ELSE IF spendingTrend.trend = "down" /\ Gt(spendingTrend.percentage, Num(10))
    THEN <<[type |-> "success",
            message |-> [text |-> "reduced", category |-> <<>>,
                         figures |-> <<toFixed(Undefined, 1)>>],
            value |-> spendingTrend.percentage, trend |-> "down"]>>
    ELSE <<>>

TrendInsights(spendingTrend) ==
    IF spendingTrend.trend = "up" /\ Gt(spendingTrend.percentage, Num(10))
    THEN <<[type |-> "warning",
            message |-> [text |-> "increased", category |-> <<>>,
                         figures |-> <<toFixed(spendingTrend.percentage, 1)>>],
            value |-> spendingTrend.percentage, trend |-> "up"]>>
    ELSE IF spendingTrend.trend = "down" /\ Gt(spendingTrend.percentage, Num(10))
    THEN <<[type |-> "success",
            message |-> [text |-> "reduced", category |-> <<>>,
                         figures |-> <<toFixed(spendingTrend.percentage, 1)>>],
            value |-> spendingTrend.percentage, trend |-> "down"]>>
    ELSE <<>>

UnusualInsights(unusualCategories) ==
    [i \in 1..Len(unusualCategories) |->
        [type |-> "warning",
         message |-> [text |-> "unusual", category |-> unusualCategories[i].name,
                      figures |-> <<toFixed(unusualCategories[i].percentage, 1)>>],
         value |-> unusualCategories[i].percentage, trend |-> "up"]]

SavingsInsights(savingsOpportunities) ==
    [i \in 1..Len(savingsOpportunities) |->
        [type |-> "info",
         message |-> savingsOpportunities[i].message,
         value |-> savingsOpportunities[i].potentialSavings, trend |-> "absent"]]

analyzeSpendingPatternsSavingsFirst(txs, today) ==
    NewInsights
        \o TrendInsights(analyzeSpendingTrend(calculateMonthlySpending(txs), today))
        \o SavingsInsights(findSavingsOpportunities(txs))
        \o UnusualInsights(detectUnusualSpending(txs, today))

\* analyze: the trend insight, the unusual-spending insights, the savings insights
analyzeSpendingPatterns(txs, today) ==
    NewInsights
        \o TrendInsights(analyzeSpendingTrend(calculateMonthlySpending(txs), today))
        \o UnusualInsights(detectUnusualSpending(txs, today))
        \o SavingsInsights(findSavingsOpportunities(txs))

PredictionOfNoClamp(categoryId, categoryTransactions) ==
    LET monthlyAmounts == calculateMonthlyAmounts(categoryTransactions)
        x == [index \in 1..Len(monthlyAmounts) |-> Num(index - 1)]
        regression == SimpleLinearRegression(x, monthlyAmounts)
    IN  IF Len(monthlyAmounts) >= 3
        THEN <<[categoryId |-> parseInt(categoryId),
                predictedAmount |-> RegressionPredict(regression, Num(Len(monthlyAmounts))),
                confidence |->
                    MathMax(Num(0), MathMin(Num(1),
                        ToNumber(RegressionScore(regression, x, monthlyAmounts))))]>>
        ELSE <<>>

PredictionOfFromTwoMonths(categoryId, categoryTransactions) ==
    LET monthlyAmounts == calculateMonthlyAmounts(categoryTransactions)
        x == [index \in 1..Len(monthlyAmounts) |-> Num(index - 1)]
        regression == SimpleLinearRegression(x, monthlyAmounts)
    IN  IF Len(monthlyAmounts) >= 2
        THEN <<[categoryId |-> parseInt(categoryId),
                predictedAmount |->
                    MathMax(Num(0), RegressionPredict(regression, Num(Len(monthlyAmounts)))),
                confidence |->
                    MathMax(Num(0), MathMin(Num(1),
                        ToNumber(RegressionScore(regression, x, monthlyAmounts))))]>>
        ELSE <<>>

PredictionOfFromFourMonths(categoryId, categoryTransactions) ==
    LET monthlyAmounts == calculateMonthlyAmounts(categoryTransactions)
        x == [index \in 1..Len(monthlyAmounts) |-> Num(index - 1)]
        regression == SimpleLinearRegression(x, monthlyAmounts)
    IN  IF Len(monthlyAmounts) >= 4
        THEN <<[categoryId |-> parseInt(categoryId),
                predictedAmount |->
                    MathMax(Num(0), RegressionPredict(regression, Num(Len(monthlyAmounts)))),
                confidence |->
                    MathMax(Num(0), MathMin(Num(1),
                        ToNumber(RegressionScore(regression, x, monthlyAmounts))))]>>
        ELSE <<>>

\* new SimpleLinearRegression(x, y) on arrays of different lengths
RangeError == [error |-> "RangeError"]

\* one category of predictNextMonthSpending's loop: what it pushes, or the
\* error the regression's constructor raises
PredictionOf(categoryId, categoryTransactions) ==
    LET monthlyAmounts == calculateMonthlyAmounts(categoryTransactions)
        x == [index \in 1..Len(monthlyAmounts) |-> Num(index - 1)]
        y == monthlyAmounts
        regression == SimpleLinearRegression(x, y)
        nextMonthPrediction == RegressionPredict(regression, Num(Len(monthlyAmounts)))
        confidence == MathMax(Num(0), MathMin(Num(1), ToNumber(RegressionScore(regression, x, y))))
    IN  IF Len(monthlyAmounts) >= 3
        THEN IF Len(x) # Len(y) THEN <<RangeError>>
             ELSE <<[categoryId |-> parseInt(categoryId),
                     predictedAmount |-> MathMax(Num(0), nextMonthPrediction),
                     confidence |-> confidence]>>
        ELSE <<>>

RECURSIVE PredictionsFrom(_, _)
PredictionsFrom(entries, i) ==
    IF i > Len(entries) THEN <<>>
    ELSE PredictionOf(entries[i].key, entries[i].value) \o PredictionsFrom(entries, i + 1)

\* predict: one CategoryPrediction per category with at least 3 monthly totals
predictNextMonthSpending(txs) ==
    PredictionsFrom(ObjectEntries(groupTransactionsByCategory(txs)), 1)

\* the calendar months the transactions are dated in, and the wall clock's range
Oct == [y |-> 2023, m |-> 10]
Nov == [y |-> 2023, m |-> 11]
Dec == [y |-> 2023, m |-> 12]
Jan == [y |-> 2024, m |-> 1]
Feb == [y |-> 2024, m |-> 2]

----------------------------------------------------------------------------
(* offline store: pending transactions and their synchronisation *)

\* most transactions ever saved offline, and the overlapping calls of
\* syncPendingTransactions
MaxPending == 3
Runs == {1, 2}

\* a call that is not running: what it read, how far it got, what it attempted
\* and which syncFn calls resolved
IdleRun == [pc |-> "idle", pending |-> <<>>, i |-> 1, attempted |-> <<>>, synced |-> {}]

\* db.getAll(STORE_NAME): the stored transactions in key order
RECURSIVE getAll(_)
getAll(keys) ==
    IF keys = {} THEN <<>>
    ELSE LET least == CHOOSE k \in keys : \A o \in keys : k <= o
         IN  <<least>> \o getAll(keys \ {least})

\* the transaction a running call is at
Current(r) == run[r].pending[run[r].i]

OfflineInit ==
    /\ store = {}
    /\ nextId = 1
    /\ run = [r \in Runs |-> IdleRun]
    /\ uploads = [t \in 1..MaxPending |-> 0]

\* db.add(STORE_NAME, {...transaction, pending: true, ...}) under a fresh key
saveOfflineTransaction ==
    /\ nextId <= MaxPending
    /\ store' = store \cup {nextId}
    /\ nextId' = nextId + 1
    /\ UNCHANGED <<run, uploads, engineVars, budgetVars, deleteVars, loadingVars>>

\* a call starts: const pending = await getPendingTransactions()
getPendingTransactions(r) ==
    /\ run[r].pc = "idle"
    /\ run' = [run EXCEPT ![r] = [pc |-> "syncFn", pending |-> getAll(store), i |-> 1,
                                  attempted |-> <<>>, synced |-> {}]]
    /\ UNCHANGED <<store, nextId, uploads, engineVars, budgetVars, deleteVars, loadingVars>>

\* a rejected syncFn whose transaction is removed all the same
syncFnRejectsAndRemoves(r) ==
    /\ run[r].pc = "syncFn"
    /\ run[r].i <= Len(run[r].pending)
    /\ store' = store \ {Current(r)}
    /\ run' = [run EXCEPT ![r].i = run[r].i + 1,
                          ![r].attempted = Append(run[r].attempted, Current(r))]
    /\ UNCHANGED <<nextId, uploads, engineVars, budgetVars, deleteVars, loadingVars>>

\* a syncFn that rejects whenever it is called
syncFnNeverResolves(r) ==
    /\ run[r].pc = "syncFn"
    /\ run[r].i <= Len(run[r].pending)
    /\ run' = [run EXCEPT ![r].i = run[r].i + 1,
                          ![r].attempted = Append(run[r].attempted, Current(r))]
    /\ UNCHANGED <<store, nextId, uploads, engineVars, budgetVars, deleteVars, loadingVars>>

\* await syncFn(transaction) resolves: the transaction has been uploaded
syncFnResolves(r) ==
    /\ run[r].pc = "syncFn"
    /\ run[r].i <= Len(run[r].pending)
    /\ uploads' = [uploads EXCEPT ![Current(r)] = uploads[Current(r)] + 1]
    /\ run' = [run EXCEPT ![r].pc = "remove",
                          ![r].attempted = Append(run[r].attempted, Current(r)),
                          ![r].synced = run[r].synced \cup {Current(r)}]
    /\ UNCHANGED <<store, nextId, engineVars, budgetVars, deleteVars, loadingVars>>

\* await syncFn(transaction) rejects: catch, console.error, next transaction
syncFnRejects(r) ==
    /\ run[r].pc = "syncFn"
    /\ run[r].i <= Len(run[r].pending)
    /\ run' = [run EXCEPT ![r].i = run[r].i + 1,
                          ![r].attempted = Append(run[r].attempted, Current(r))]
    /\ UNCHANGED <<store, nextId, uploads, engineVars, budgetVars, deleteVars, loadingVars>>

\* await removePendingTransaction(transaction.id): db.delete, whether or not
\* the key is still stored
removePendingTransaction(r) ==
    /\ run[r].pc = "remove"
    /\ store' = store \ {Current(r)}
    /\ run' = [run EXCEPT ![r].pc = "syncFn", ![r].i = run[r].i + 1]
    /\ UNCHANGED <<nextId, uploads, engineVars, budgetVars, deleteVars, loadingVars>>

\* the loop is over and the call returns
syncPendingTransactionsReturns(r) ==
    /\ run[r].pc = "syncFn"
    /\ run[r].i > Len(run[r].pending)
    /\ run' = [run EXCEPT ![r].pc = "idle"]
    /\ UNCHANGED <<store, nextId, uploads, engineVars, budgetVars, deleteVars, loadingVars>>

\* one step of a call of syncPendingTransactions
syncPendingTransactions(r) ==
    \/ getPendingTransactions(r)
    \/ syncFnResolves(r)
    \/ syncFnRejects(r)
    \/ removePendingTransaction(r)
    \/ syncPendingTransactionsReturns(r)

----------------------------------------------------------------------------
(* the budgets and categories tables, BudgetForm and Categories *)

\* the categories and months of the forms, the overlapping submissions and
\* deletions, and the most rows the tables are let grow to
BudgetCategories == {1, 2}
BudgetMonths == {Jan, Feb}
Forms == {1, 2}
Deletes == {1, 2}
MaxBudgets == 2
MaxTransactionRows == 1

BudgetKeys == BudgetCategories \X BudgetMonths

RECURSIVE RowsOf(_, _)
RowsOf(table, keys) ==
    IF keys = {} THEN 0
    ELSE LET key == CHOOSE k \in keys : TRUE
         IN  table[key] + RowsOf(table, keys \ {key})

\* the budgets rows in all, and those with category_id = id
TotalBudgets == RowsOf(budgets, BudgetKeys)
BudgetsOfCategory(id) == RowsOf(budgets, {key \in BudgetKeys : key[1] = id})

IdleForm == [pc |-> "idle", category_id |-> 1, month |-> Jan, message |-> "none"]
\* counted: how many of the call's two count queries have returned 0
IdleDelete == [pc |-> "idle", id |-> 1, captured |-> {}, counted |-> 0, message |-> "none"]

TablesInit ==
    /\ budgets = [key \in BudgetKeys |-> 0]
    /\ form = [s \in Forms |-> IdleForm]
    /\ categoryRows = BudgetCategories
    /\ transactionRows = [id \in BudgetCategories |-> 0]
    /\ localCategories = BudgetCategories
    /\ del = [h \in Deletes |-> IdleDelete]

\* handleSubmit of a create form that validate() accepts, up to its first await
handleSubmit(s) ==
    /\ form[s].pc = "idle"
    /\ TotalBudgets < MaxBudgets
    /\ \E category_id \in BudgetCategories, month \in BudgetMonths :
          form' = [form EXCEPT ![s] = [pc |-> "check", category_id |-> category_id,
                                       month |-> month, message |-> "none"]]
    /\ UNCHANGED <<budgets, engineVars, offlineVars, deleteVars, loadingVars>>

\* the select on user_id, month and category_id returns: checkError is thrown
\* and caught, an existing budget is reported, or the submission goes on
existenceQuery(s) ==
    /\ form[s].pc = "check"
    /\ \/ form' = [form EXCEPT ![s].pc = "idle", ![s].message = "Failed to create budget"]
       \/ /\ budgets[<<form[s].category_id, form[s].month>>] > 0
          /\ form' = [form EXCEPT ![s].pc = "idle",
                                  ![s].message = "A budget for this category and month already exists"]
       \/ /\ budgets[<<form[s].category_id, form[s].month>>] = 0
          /\ form' = [form EXCEPT ![s].pc = "insert"]
    /\ UNCHANGED <<budgets, engineVars, offlineVars, deleteVars, loadingVars>>

\* the insert returns: an error is thrown and caught, or the row is in the
\* table, which takes any row whose category exists
insertBudget(s) ==
    /\ form[s].pc = "insert"
    /\ \/ /\ form' = [form EXCEPT ![s].pc = "idle", ![s].message = "Failed to create budget"]
          /\ UNCHANGED budgets
       \/ /\ form[s].category_id \in categoryRows
          /\ budgets' = [budgets EXCEPT ![<<form[s].category_id, form[s].month>>] = @ + 1]
          /\ form' = [form EXCEPT ![s].pc = "idle", ![s].message = "Budget created successfully"]
    /\ UNCHANGED <<engineVars, offlineVars, deleteVars, loadingVars>>

\* another client inserts a transaction or a budget that references a category
TransactionInserted ==
    \E id \in categoryRows :
        /\ transactionRows[id] < MaxTransactionRows
        /\ transactionRows' = [transactionRows EXCEPT ![id] = @ + 1]
        /\ UNCHANGED <<categoryRows, localCategories, del, engineVars, offlineVars,
                       budgetVars, loadingVars>>

BudgetInserted ==
    \E id \in categoryRows :
        /\ TotalBudgets < MaxBudgets
        /\ budgets' = [budgets EXCEPT ![<<id, Jan>>] = @ + 1]
        /\ UNCHANGED <<form, engineVars, offlineVars, deleteVars, loadingVars>>

\* handleDelete(id) of a listed category, up to its first await; the handler
\* keeps the categories of the render it was made in
handleDelete(h) ==
    /\ del[h].pc = "idle"
    /\ \E id \in localCategories :
          del' = [del EXCEPT ![h] = [pc |-> "countTransactions", id |-> id,
                                     captured |-> localCategories, counted |-> 0,
                                     message |-> "none"]]
    /\ UNCHANGED <<categoryRows, transactionRows, localCategories, engineVars, offlineVars,
                   budgetVars, loadingVars>>

\* the count of transactions returns: countError is thrown and caught, a
\* count above 0 ends the call, a count of 0 lets it go on
countTransactions(h) ==
    /\ del[h].pc = "countTransactions"
    /\ \/ del' = [del EXCEPT ![h].pc = "idle", ![h].message = "Failed to delete category"]
       \/ /\ transactionRows[del[h].id] > 0
          /\ del' = [del EXCEPT ![h].pc = "idle", ![h].message = "Cannot delete: used in transactions"]
       \/ /\ transactionRows[del[h].id] = 0
          /\ del' = [del EXCEPT ![h].pc = "countBudgets", ![h].counted = 1]
    /\ UNCHANGED <<categoryRows, transactionRows, localCategories, engineVars, offlineVars,
                   budgetVars, loadingVars>>

\* the count of budgets returns, likewise
countBudgets(h) ==
    /\ del[h].pc = "countBudgets"
    /\ \/ del' = [del EXCEPT ![h].pc = "idle", ![h].message = "Failed to delete category"]
       \/ /\ BudgetsOfCategory(del[h].id) > 0
          /\ del' = [del EXCEPT ![h].pc = "idle", ![h].message = "Cannot delete: used in budgets"]
       \/ /\ BudgetsOfCategory(del[h].id) = 0
          /\ del' = [del EXCEPT ![h].pc = "delete", ![h].counted = 2]
    /\ UNCHANGED <<categoryRows, transactionRows, localCategories, engineVars, offlineVars,
                   budgetVars, loadingVars>>

\* a delete that the tables' references do not hold back
deleteCategoryUnchecked(h) ==
    /\ del[h].pc = "delete"
    /\ categoryRows' = categoryRows \ {del[h].id}
    /\ localCategories' = del[h].captured \ {del[h].id}
    /\ del' = [del EXCEPT ![h].pc = "idle", ![h].message = "Category deleted"]
    /\ UNCHANGED <<transactionRows, engineVars, offlineVars, budgetVars, loadingVars>>

\* the delete returns: with an error, which a row referencing the category
\* raises (category_id REFERENCES categories(id)), thrown and caught; or the
\* row is gone and setCategories(categories.filter(c => c.id !== id)) is run
deleteCategory(h) ==
    /\ del[h].pc = "delete"
    /\ \/ /\ del' = [del EXCEPT ![h].pc = "idle", ![h].message = "Failed to delete category"]
          /\ UNCHANGED <<categoryRows, localCategories>>
       \/ /\ transactionRows[del[h].id] = 0
          /\ BudgetsOfCategory(del[h].id) = 0
          /\ categoryRows' = categoryRows \ {del[h].id}
          /\ localCategories' = del[h].captured \ {del[h].id}
          /\ del' = [del EXCEPT ![h].pc = "idle", ![h].message = "Category deleted"]
    /\ UNCHANGED <<transactionRows, engineVars, offlineVars, budgetVars, loadingVars>>

----------------------------------------------------------------------------
(* Dashboard.tsx: the page's loading state *)

\* the overlapping calls of fetchDashboardData
Fetches == {1, 2}

\* failed: "none", or what the call's catch caught, "query" or "engine"
IdleFetch == [pc |-> "idle", transactionsData |-> <<>>, categoriesData |-> {},
              spendingInsights |-> <<>>, predictions |-> <<>>, failed |-> "none"]

\* Math.round((income - expenses) / income * 100), income above 0
RoundedRate(income, expenses) ==
    FloorDiv(200 * (income - expenses) + income, 2 * income)

\* the stats of a list of transactions: income, expenses, balance, savingsRate
StatsOf(txs) ==
    LET income == SumFrom(Num(0), [i \in 1..Len(txs) |->
                      IF txs[i].type = "income" THEN Num(txs[i].amount) ELSE Num(0)], 1).n
        expenses == SumFrom(Num(0), [i \in 1..Len(txs) |->
                      IF txs[i].type = "expense" THEN Num(txs[i].amount) ELSE Num(0)], 1).n
    IN  [balance |-> income - expenses, income |-> income, expenses |-> expenses,
         savingsRate |-> IF income > 0 THEN RoundedRate(income, expenses) ELSE 0]

NoStats == [balance |-> 0, income |-> 0, expenses |-> 0, savingsRate |-> 0]

LoadingInit ==
    /\ isLoading = TRUE
    /\ isAnalyzing = FALSE
    /\ stats = NoStats
    /\ fetch = [f \in Fetches |-> IdleFetch]

\* the other pages at rest
PagesInit == OfflineInit /\ TablesInit /\ LoadingInit

----------------------------------------------------------------------------
(* The caller's inputs and the state machine *)

\* longest transaction list of each family of inputs
MaxLen == 4
MaxLinearLen == 3
MaxMixedLen == 5

\* the date strings of a day of a month: its first day, and a day inside it
FirstDay(month) == [y |-> month.y, m |-> month.m, d |-> 1]
MidMonth(month) == [y |-> month.y, m |-> month.m, d |-> 15]

\* a row of the transactions table with the category its query joined to it
JoinedTransaction(type, category_id, date, amount, category) ==
    [type |-> type, category_id |-> category_id, date |-> date, amount |-> amount,
     category |-> category]

\* a transaction whose category_id names a categories row of the user
Transaction(type, category_id, date, amount) ==
    JoinedTransaction(type, category_id, date, amount, CategoryRow(category_id))

\* one category's expenses over four months: three months of history and a current one
SeriesTransactions ==
    {Transaction("expense", 1, MidMonth(month), 100) : month \in {Oct, Nov, Dec, Jan}}
        \cup {Transaction("expense", 1, MidMonth(month), 400) : month \in {Dec, Jan}}

\* one category's expenses over three months, small amounts
LinearTransactions ==
    {Transaction("expense", 1, MidMonth(month), amount) :
        month \in {Nov, Dec, Jan}, amount \in {10, 30}}
        \cup {Transaction("expense", 1, MidMonth(Dec), 20)}

\* one category's expenses over three months, one amount well under the other
SavingsTransactions ==
    {Transaction("expense", 1, MidMonth(month), amount) :
        month \in {Nov, Dec, Jan}, amount \in {30, 100}}

\* amounts of zero, which the transactions table admits
ZeroTransactions ==
    {Transaction("expense", 1, MidMonth(month), 0) : month \in {Oct, Nov, Dec, Jan}}
        \cup {Transaction("expense", 1, MidMonth(month), 100) : month \in {Dec, Jan}}

\* a December of 100 and Januaries 10% and 5% around it, and further off
TrendTransactions ==
    {Transaction("expense", 1, MidMonth(Dec), 100)}
        \cup {Transaction("expense", 1, MidMonth(Jan), amount) : amount \in {5, 10, 90, 100}}

\* one category's expenses with a month of no expense between them, or none
GapTransactions ==
    {Transaction("expense", 1, MidMonth(Oct), 10),
     Transaction("expense", 1, MidMonth(Nov), 20),
     Transaction("expense", 1, MidMonth(Dec), 30),
     Transaction("expense", 1, MidMonth(Jan), 30)}

\* two categories and both transaction types
MixedTransactions ==
    {Transaction("expense", 1, MidMonth(month), 100) : month \in {Nov, Dec, Jan}}
        \cup {Transaction("expense", 2, MidMonth(month), 100) : month \in {Dec, Jan}}
        \cup {Transaction("income", 1, MidMonth(Dec), 400)}

\* the lists of at most maxLen transactions of a universe, in every order, no
\* two transactions of a list alike in type, category, date and amount
Lists(universe, maxLen) ==
    UNION {{list \in [1..n -> universe] : \A i, j \in 1..n : i < j => list[i] # list[j]} :
              n \in 0..maxLen}

\* every ordering of every list is an input: the engine takes the list as given
Inputs ==
    Lists(SeriesTransactions, MaxLen)
        \cup Lists(LinearTransactions, MaxLinearLen)
        \cup Lists(SavingsTransactions, MaxLen)
        \cup Lists(ZeroTransactions, MaxLen)
        \cup Lists(TrendTransactions, MaxLen)
        \cup Lists(GapTransactions, MaxLen)
        \cup Lists(MixedTransactions, MaxMixedLen)

Init ==
    /\ transactions \in Inputs
    /\ now = Jan
    /\ insights = NotRun
    /\ predictions = NotRun
    /\ timeZone = 0
    /\ categories = {}
    /\ dashboardInsights = <<>>
    /\ PagesInit

\* an exception raised inside a call ends the call: the error it ends with
InsightsError(out) ==
    IF \E i \in 1..Len(out) : \E j \in 1..Len(out[i].message.figures) :
            out[i].message.figures[j].k = "TypeError"
    THEN "TypeError" ELSE "none"

PredictionsError(out) ==
    IF \E i \in 1..Len(out) : out[i] = RangeError THEN "RangeError" ELSE "none"

\* a call made at `at`: the list it returned, or the error it raised
Completion(at, out, error) ==
    [at |-> at, out |-> IF error = "none" THEN out ELSE <<>>, error |-> error]

\* an analyze that sorts its argument in place (transactions.reverse()) first
AnalyzeReversingInput ==
    /\ transactions' = [i \in 1..Len(transactions) |-> transactions[Len(transactions) + 1 - i]]
    /\ insights' = LET out == analyzeSpendingPatterns(transactions', now)
                   IN  Completion(now, out, InsightsError(out))
    /\ UNCHANGED <<now, predictions, timeZone, categories, dashboardInsights, pageVars>>

\* a caller runs analyzeSpendingPatterns(transactions)
Analyze ==
    /\ insights' = LET out == analyzeSpendingPatterns(transactions, now)
                   IN  Completion(now, out, InsightsError(out))
    /\ UNCHANGED <<transactions, now, predictions, timeZone, categories, dashboardInsights, pageVars>>

\* a predict that pushes into an array shared by all calls
PredictIntoSharedArray ==
    /\ predictions' = LET out == predictNextMonthSpending(transactions)
                      IN  Completion(now, predictions.out \o out, PredictionsError(out))
    /\ UNCHANGED <<transactions, now, insights, timeZone, categories, dashboardInsights, pageVars>>

\* a caller runs predictNextMonthSpending(transactions)
Predict ==
    /\ predictions' = LET out == predictNextMonthSpending(transactions)
                      IN  Completion(now, out, PredictionsError(out))
    /\ UNCHANGED <<transactions, now, insights, timeZone, categories, dashboardInsights, pageVars>>

\* the wall clock passes into the next calendar month
Tick ==
    /\ now = Jan
    /\ now' = Feb
    /\ UNCHANGED <<transactions, insights, predictions, timeZone, categories, dashboardInsights, pageVars>>

Next == Analyze \/ Predict \/ Tick

Spec == Init /\ [][Next]_vars

----------------------------------------------------------------------------
(* The engine in browsers of several time zones *)

\* longest transaction list of the zoned inputs
MaxZonedLen == 3

\* New York, UTC and Paris, as hours from UTC
TimeZones == {-5, 0, 1}

\* expenses and an income dated the first of January, and expenses dated
\* inside January and December
ZonedTransactions ==
    {Transaction("expense", 1, FirstDay(Jan), 100),
     Transaction("expense", 1, MidMonth(Jan), 30),
     Transaction("expense", 1, MidMonth(Dec), 10),
     Transaction("income", 1, FirstDay(Jan), 400)}

ZonedInit ==
    /\ transactions \in Lists(ZonedTransactions, MaxZonedLen)
    /\ now = Jan
    /\ insights = NotRun
    /\ predictions = NotRun
    /\ timeZone \in TimeZones
    /\ categories = {}
    /\ dashboardInsights = <<>>
    /\ PagesInit

ZonedSpec == ZonedInit /\ [][Next]_vars

----------------------------------------------------------------------------
(* The engine on transactions whose category is missing *)

\* longest transaction list of one category
MaxCategoryLen == 4

\* category 1 is a row of the user; category 2 is a row the user's query does
\* not return; Null is no reference at all
CategoryIds == {1, 2, Null}
JoinedCategory(category_id) == IF category_id = 1 THEN CategoryRow(1) ELSE NoCategory

\* the expenses of one category: three months of 100 and a January of 100 or 400
CategoryTransactions(category_id) ==
    {JoinedTransaction("expense", category_id, MidMonth(month), 100, JoinedCategory(category_id)) :
        month \in {Oct, Nov, Dec, Jan}}
        \cup {JoinedTransaction("expense", category_id, MidMonth(Jan), 400,
                                JoinedCategory(category_id))}

\* a category's history followed by its January of 400
FlaggedList(category_id) ==
    [i \in 1..4 |->
        JoinedTransaction("expense", category_id, MidMonth(<<Oct, Nov, Dec, Jan>>[i]),
                          <<100, 100, 100, 400>>[i], JoinedCategory(category_id))]

\* each category alone in every order, and two flagged categories in one list
CategoryInputs ==
    UNION {Lists(CategoryTransactions(category_id), MaxCategoryLen) : category_id \in CategoryIds}
        \cup {FlaggedList(pair[1]) \o FlaggedList(pair[2]) :
                  pair \in {p \in CategoryIds \X CategoryIds : p[1] # p[2]}}

CategoryInit ==
    /\ transactions \in CategoryInputs
    /\ now = Jan
    /\ insights = NotRun
    /\ predictions = NotRun
    /\ timeZone = 0
    /\ categories = {}
    /\ dashboardInsights = <<>>
    /\ PagesInit

CategorySpec == CategoryInit /\ [][Next]_vars

----------------------------------------------------------------------------
(* Dashboard.tsx: the page that calls the engine *)

\* longest transaction list a fetch returns
MaxFetchedLen == 3

\* the user's transactions rows: one category over three months
FetchedTransactions ==
    {Transaction("expense", 1, MidMonth(Nov), 10),
     Transaction("expense", 1, MidMonth(Dec), 20),
     Transaction("expense", 1, MidMonth(Jan), 30),
     Transaction("expense", 1, MidMonth(Jan), 400)}

\* .order('date', { ascending: false })
DateDescending(list) ==
    \A i, j \in 1..Len(list) :
        i < j => list[i].date.y * 10000 + list[i].date.m * 100 + list[i].date.d
                    >= list[j].date.y * 10000 + list[j].date.m * 100 + list[j].date.d

\* what the transactions query can return, and the categories query
DashboardInputs == {list \in Lists(FetchedTransactions, MaxFetchedLen) : DateDescending(list)}
KnownCategories == {{}, {1}}

IsPredictionInsight(insight) == insight.message.text = "prediction"

PredictionInsightsUnfiltered(predicted, categoriesData) ==
    LET known == SelectSeq(predicted, LAMBDA prediction :
                     \E id \in categoriesData : Num(id) = prediction.categoryId)
    IN  [i \in 1..Len(known) |->
            [type |-> "info",
             message |-> [text |-> "prediction",
                          category |-> CategoryRow(known[i].categoryId.n).name,
                          figures |-> <<toFixed(known[i].predictedAmount, 2)>>],
             value |-> known[i].predictedAmount, trend |-> "absent"]]

\* predictions.forEach: an insight for each prediction of confidence above 0.7
\* whose categoryId is the id of a fetched category
PredictionInsights(predicted, categoriesData) ==
    LET confident == SelectSeq(predicted, LAMBDA prediction :
                         /\ Gt(prediction.confidence, Rat(7, 10))
                         /\ \E id \in categoriesData : Num(id) = prediction.categoryId)
    IN  [i \in 1..Len(confident) |->
            [type |-> "info",
             message |-> [text |-> "prediction",
                          category |-> CategoryRow(confident[i].categoryId.n).name,
                          figures |-> <<toFixed(confident[i].predictedAmount, 2)>>],
             value |-> confident[i].predictedAmount, trend |-> "absent"]]

\* fetchDashboardData: both queries answer, the rows are stored, and when there
\* is a transaction the engine runs on the rows and its insights, with the
\* confident predictions pushed behind them, become the page's insights; an
\* exception in the engine leaves the insights as they are
fetchDashboardData ==
    \E transactionsData \in DashboardInputs, categoriesData \in KnownCategories :
        LET spendingInsights == analyzeSpendingPatterns(transactionsData, now)
            predicted == predictNextMonthSpending(transactionsData)
            analyzed == Len(transactionsData) > 0
            awaited == analyzed /\ InsightsError(spendingInsights) = "none"
        IN  /\ transactions' = transactionsData
            /\ categories' = categoriesData
            /\ insights' = IF analyzed
                           THEN Completion(now, spendingInsights, InsightsError(spendingInsights))
                           ELSE insights
            /\ predictions' = IF awaited
                              THEN Completion(now, predicted, PredictionsError(predicted))
                              ELSE predictions
            /\ dashboardInsights' =
                    IF awaited /\ PredictionsError(predicted) = "none"
                    THEN spendingInsights \o PredictionInsights(predicted, categoriesData)
                    ELSE dashboardInsights
            /\ stats' = StatsOf(transactionsData)
            /\ isLoading' = FALSE
            /\ isAnalyzing' = FALSE
            /\ UNCHANGED <<now, timeZone, fetch, offlineVars, budgetVars, deleteVars>>

\* what the transactions query of the stepwise calls returns: no row, or a
\* row of January and one of December, whose trend is an insight
LoadingInputs ==
    {list \in DashboardInputs :
        list = <<>> \/ (Len(list) = 2 /\ list[1].date.m = Jan.m /\ list[2].date.m = Dec.m)}

\* a call starts: setIsLoading(true), setIsAnalyzing(true), and the
\* transactions query is sent
fetchStarts(f) ==
    /\ fetch[f].pc = "idle"
    /\ isLoading' = TRUE
    /\ isAnalyzing' = TRUE
    /\ fetch' = [fetch EXCEPT ![f] = [IdleFetch EXCEPT !.pc = "transactions"]]
    /\ UNCHANGED <<stats, engineVars, offlineVars, budgetVars, deleteVars>>

\* catch and finally of a call: the toast, setIsLoading(false), setIsAnalyzing(false)
Caught(f, failed) ==
    /\ isLoading' = FALSE
    /\ isAnalyzing' = FALSE
    /\ fetch' = [fetch EXCEPT ![f].pc = "idle", ![f].failed = failed]

\* a transactions query whose error skips the finally block
transactionsQueryWithoutFinally(f) ==
    /\ fetch[f].pc = "transactions"
    /\ \/ /\ fetch' = [fetch EXCEPT ![f].pc = "idle", ![f].failed = "query"]
          /\ UNCHANGED <<isLoading, isAnalyzing>>
       \/ \E transactionsData \in LoadingInputs :
             /\ fetch' = [fetch EXCEPT ![f].pc = "categories",
                                       ![f].transactionsData = transactionsData]
             /\ UNCHANGED <<isLoading, isAnalyzing>>
    /\ UNCHANGED <<stats, engineVars, offlineVars, budgetVars, deleteVars>>

\* the transactions query returns: transactionsError is thrown, or the rows
\* are kept and the categories query is sent
transactionsQuery(f) ==
    /\ fetch[f].pc = "transactions"
    /\ \/ Caught(f, "query")
       \/ \E transactionsData \in LoadingInputs :
             /\ fetch' = [fetch EXCEPT ![f].pc = "categories",
                                       ![f].transactionsData = transactionsData]
             /\ UNCHANGED <<isLoading, isAnalyzing>>
    /\ UNCHANGED <<stats, engineVars, offlineVars, budgetVars, deleteVars>>

\* the categories query returns: categoriesError is thrown, or the page sets
\* transactions, categories and stats, and on a list that is not empty runs
\* analyze and predict, whose promise it awaits
categoriesQuery(f) ==
    /\ fetch[f].pc = "categories"
    /\ \/ /\ Caught(f, "query")
          /\ UNCHANGED <<stats, engineVars>>
       \/ \E categoriesData \in KnownCategories :
             LET transactionsData == fetch[f].transactionsData
                 spendingInsights == analyzeSpendingPatterns(transactionsData, now)
                 predicted == predictNextMonthSpending(transactionsData)
                 thrown == IF InsightsError(spendingInsights) # "none" THEN "analyze"
                           ELSE IF PredictionsError(predicted) # "none" THEN "predict"
                           ELSE "none"
             IN  /\ transactions' = transactionsData
                 /\ categories' = categoriesData
                 /\ stats' = StatsOf(transactionsData)
                 /\ IF Len(transactionsData) = 0
                    THEN /\ Caught(f, "none")
                         /\ UNCHANGED <<insights, predictions>>
                    ELSE /\ insights' = Completion(now, spendingInsights,
                                                   InsightsError(spendingInsights))
                         /\ predictions' = IF thrown = "analyze" THEN predictions
                                           ELSE Completion(now, predicted,
                                                           PredictionsError(predicted))
                         /\ IF thrown # "none"
                            THEN Caught(f, "engine")
                            ELSE /\ fetch' = [fetch EXCEPT ![f].pc = "predict",
                                                           ![f].categoriesData = categoriesData,
                                                           ![f].spendingInsights = spendingInsights,
                                                           ![f].predictions = predicted]
                                 /\ UNCHANGED <<isLoading, isAnalyzing>>
                 /\ UNCHANGED <<now, timeZone, dashboardInsights>>
    /\ UNCHANGED <<offlineVars, budgetVars, deleteVars>>

\* the await of predict's promise resumes: the confident predictions are
\* pushed, setInsights(spendingInsights), and the finally block
predictResolves(f) ==
    /\ fetch[f].pc = "predict"
    /\ dashboardInsights' =
            fetch[f].spendingInsights
                \o PredictionInsights(fetch[f].predictions, fetch[f].categoriesData)
    /\ Caught(f, "none")
    /\ UNCHANGED <<transactions, now, insights, predictions, timeZone, categories, stats,
                   offlineVars, budgetVars, deleteVars>>

\* the page before its first fetch
DashboardInit ==
    /\ transactions = <<>>
    /\ now = Jan
    /\ insights = NotRun
    /\ predictions = NotRun
    /\ timeZone = 0
    /\ categories = {}
    /\ dashboardInsights = <<>>
    /\ PagesInit

\* the page fetches, and callers run the engine on the rows it holds, in any order
DashboardNext == fetchDashboardData \/ Analyze \/ Predict \/ Tick

DashboardSpec == DashboardInit /\ [][DashboardNext]_vars

\* the calls of fetchDashboardData step by step, overlapping
LoadingNext ==
    \E f \in Fetches :
        fetchStarts(f) \/ transactionsQuery(f) \/ categoriesQuery(f) \/ predictResolves(f)

\* the queries of a started call return and its awaited prediction resolves
LoadingFairness ==
    \A f \in Fetches :
        /\ WF_vars(transactionsQuery(f))
        /\ WF_vars(categoriesQuery(f))
        /\ WF_vars(predictResolves(f))

LoadingSpec == DashboardInit /\ [][LoadingNext]_vars /\ LoadingFairness

----------------------------------------------------------------------------
(* The offline store under saves and overlapping synchronisations *)

EngineInit ==
    /\ transactions = <<>>
    /\ now = Jan
    /\ insights = NotRun
    /\ predictions = NotRun
    /\ timeZone = 0
    /\ categories = {}
    /\ dashboardInsights = <<>>

SyncInit == EngineInit /\ PagesInit

SyncNext ==
    \/ saveOfflineTransaction
    \/ \E r \in Runs : syncPendingTransactions(r)

SyncSpec == SyncInit /\ [][SyncNext]_vars

\* no new transaction is saved: the store holds what was saved before
SyncLiveInit ==
    /\ EngineInit
    /\ \E saved \in 1..MaxPending :
          /\ store \in (SUBSET (1..saved)) \ {{}}
          /\ nextId = saved + 1
    /\ run = [r \in Runs |-> IdleRun]
    /\ uploads = [t \in 1..MaxPending |-> 0]
    /\ TablesInit
    /\ LoadingInit

SyncLiveNext == \E r \in Runs : syncPendingTransactions(r)

\* calls are made again and again, a started call goes on, and syncFn
\* eventually resolves for a transaction it keeps being given
SyncFairness ==
    \A r \in Runs :
        /\ WF_vars(getPendingTransactions(r))
        /\ WF_vars(removePendingTransaction(r))
        /\ WF_vars(syncPendingTransactionsReturns(r))
        /\ WF_vars(syncFnResolves(r) \/ syncFnRejects(r))
        /\ \A t \in 1..MaxPending :
              SF_vars(syncFnResolves(r) /\ run[r].pending[run[r].i] = t)

SyncLiveSpec == SyncLiveInit /\ [][SyncLiveNext]_vars /\ SyncFairness

----------------------------------------------------------------------------
(* BudgetForm under overlapping create submissions *)

BudgetInit == EngineInit /\ PagesInit

BudgetNext ==
    \E s \in Forms : handleSubmit(s) \/ existenceQuery(s) \/ insertBudget(s)

BudgetSpec == BudgetInit /\ [][BudgetNext]_vars

----------------------------------------------------------------------------
(* Categories under overlapping deletions and rows inserted by other clients *)

DeleteInit == EngineInit /\ PagesInit

DeleteNext ==
    \/ TransactionInserted
    \/ BudgetInserted
    \/ \E h \in Deletes :
          handleDelete(h) \/ countTransactions(h) \/ countBudgets(h) \/ deleteCategory(h)

DeleteSpec == DeleteInit /\ [][DeleteNext]_vars

----------------------------------------------------------------------------
(* Reference quantities the properties are stated with, computed from the   *)
(* transaction list directly (sets of list positions, integer sums).        *)

RECURSIVE AmountSum(_, _)
AmountSum(txs, positions) ==
    IF positions = {} THEN 0
    ELSE LET i == CHOOSE p \in positions : TRUE
         IN  txs[i].amount + AmountSum(txs, positions \ {i})

\* the calendar month a transaction is dated in
MonthOf(date) == [y |-> date.y, m |-> date.m]

ExpensePositions(txs) == {i \in 1..Len(txs) : txs[i].type = "expense"}

\* the expense total of a calendar month, all categories
ExpenseTotal(txs, month) ==
    AmountSum(txs, {i \in ExpensePositions(txs) : MonthOf(txs[i].date) = month})

ExpenseCategories(txs) == {txs[i].category_id : i \in ExpensePositions(txs)}

\* the calendar months in which a category has an expense
ExpenseMonths(txs, c) ==
    {MonthOf(txs[i].date) : i \in {j \in ExpensePositions(txs) : txs[j].category_id = c}}

\* a category's expense total of a calendar month
CategoryTotal(txs, c, month) ==
    AmountSum(txs, {i \in ExpensePositions(txs) :
                        txs[i].category_id = c /\ MonthOf(txs[i].date) = month})

\* over a set of months: the sum of a category's totals, and of their squares
RECURSIVE TotalsSum(_, _, _)
TotalsSum(txs, c, months) ==
    IF months = {} THEN 0
    ELSE LET month == CHOOSE mo \in months : TRUE
         IN  CategoryTotal(txs, c, month) + TotalsSum(txs, c, months \ {month})

RECURSIVE TotalsSquares(_, _, _)
TotalsSquares(txs, c, months) ==
    IF months = {} THEN 0
    ELSE LET month == CHOOSE mo \in months : TRUE
         IN  CategoryTotal(txs, c, month) * CategoryTotal(txs, c, month)
                + TotalsSquares(txs, c, months \ {month})

\* a category's monthly totals in the order the months first appear in the list
MonthlySeries(txs, c) == calculateMonthlyAmounts(groupTransactionsByCategory(txs)[c])

\* the least-squares line through (i - 1, y[i]), i = 1..Len(y), evaluated at
\* index `at`: mean(y) + slope * (at - mean(x)), slope = Sxy / Sxx
LeastSquaresAt(y, at) ==
    LET n == Len(y)
        xMean == Rat(n - 1, 2)
        yMean == Div(Sum(y), Num(n))
        Sxy == Sum([i \in 1..n |-> Mul(Sub(Num(i - 1), xMean), Sub(y[i], yMean))])
        Sxx == Sum([i \in 1..n |-> Mul(Sub(Num(i - 1), xMean), Sub(Num(i - 1), xMean))])
    IN  Add(yMean, Mul(Div(Sxy, Sxx), Sub(Num(at), xMean)))

IsTrendInsight(insight) == insight.message.text \in {"increased", "reduced"}
IsUnusualInsight(insight) == insight.message.text = "unusual"
IsSavingsInsight(insight) == insight.message.text = "savings"

UnusualInsightsOf(out, c) ==
    SelectSeq(out, LAMBDA s : IsUnusualInsight(s) /\ s.message.category = CategoryRow(c).name)

SavingsInsightsOf(out, c) ==
    SelectSeq(out, LAMBDA s : IsSavingsInsight(s) /\ s.message.category = CategoryRow(c).name)

PredictionsOf(out, c) == SelectSeq(out, LAMBDA p : p.categoryId = Num(c))

----------------------------------------------------------------------------
(* Properties *)

C2_ZeroPreviousMonthIsStable ==
    (HasRun(insights) /\ ExpenseTotal(transactions, subMonths(insights.at)) = 0) =>
        /\ analyzeSpendingTrend(calculateMonthlySpending(transactions), insights.at)
              = [trend |-> "stable", percentage |-> Num(0)]
        /\ \A i \in 1..Len(insights.out) : ~IsTrendInsight(insights.out[i])

\* analyze ran with an expense entry of total 0 in the previous month and a
\* positive total in the current one
C2_Witness ==
    /\ HasRun(insights)
    /\ \E i \in ExpensePositions(transactions) :
          MonthOf(transactions[i].date) = subMonths(insights.at)
    /\ ExpenseTotal(transactions, subMonths(insights.at)) = 0
    /\ ExpenseTotal(transactions, insights.at) > 0

\* C3: a category whose expenses fall in exactly 2 distinct calendar months
\* gets no anomaly insight, no savings insight and no prediction, whatever the
\* amounts and the other categories.
C3_TwoMonthsNoOutput ==
    \A c \in ExpenseCategories(transactions) :
        Cardinality(ExpenseMonths(transactions, c)) = 2 =>
            /\ HasRun(insights) =>
                  /\ UnusualInsightsOf(insights.out, c) = <<>>
                  /\ SavingsInsightsOf(insights.out, c) = <<>>
            /\ HasRun(predictions) => PredictionsOf(predictions.out, c) = <<>>

\* both functions ran on a list in which one category has exactly 2 months
\* and another category got a prediction
C3_Witness ==
    /\ HasRun(insights) /\ HasRun(predictions)
    /\ \E c \in ExpenseCategories(transactions) :
          Cardinality(ExpenseMonths(transactions, c)) = 2
    /\ predictions.out # <<>>
    /\ insights.out # <<>>

\* C4: a category (with at least 3 historical months) is flagged exactly when
\* its current-month expense total is strictly greater than mean + 2 * stddev
\* of its historical monthly totals (the months other than the current one,
\* population standard deviation), and the insight carries
\* (current - mean) / mean * 100; in particular three prior months of 100 and
\* a current month of 400 give an anomaly insight with percentage 300.
C4_FlaggedAboveTwoSigma ==
    HasRun(insights) =>
        \A c \in ExpenseCategories(transactions) :
            LET history == ExpenseMonths(transactions, c) \ {insights.at}
                n == Cardinality(history)
                total == TotalsSum(transactions, c, history)
                squares == TotalsSquares(transactions, c, history)
                current == CategoryTotal(transactions, c, insights.at)
                above == /\ n * current - total > 0
                         /\ (n * current - total) * (n * current - total)
                               > 4 * (n * squares - total * total)
                flagged == UnusualInsightsOf(insights.out, c)
            IN  (n >= 3 /\ total # 0) =>
                    /\ Len(flagged) = IF above THEN 1 ELSE 0
                    /\ above => flagged[1].value = Rat(100 * (n * current - total), total)

\* C5: for a category with at least 3 months of expenses, exactly one info
\* insight is emitted iff the least monthly total is under 0.7 * the mean
\* monthly total, its value is mean - minimum, and nothing is emitted
\* otherwise; the totals 100, 100, 30 give 230/3 - 30.
C5_SavingsBelowSeventyPercent ==
    HasRun(insights) =>
        \A c \in ExpenseCategories(transactions) :
            LET months == ExpenseMonths(transactions, c)
                n == Cardinality(months)
                total == TotalsSum(transactions, c, months)
                least == CHOOSE t \in {CategoryTotal(transactions, c, mo) : mo \in months} :
                            \A mo \in months : t <= CategoryTotal(transactions, c, mo)
                savings == SavingsInsightsOf(insights.out, c)
            IN  n >= 3 =>
                    /\ Len(savings) = IF 10 * n * least < 7 * total THEN 1 ELSE 0
                    /\ 10 * n * least < 7 * total =>
                          /\ savings[1].type = "info"
                          /\ savings[1].value = Rat(total - n * least, n)

\* analyze ran on a category with the totals 100, 100 and 30 and emitted the
\* savings insight with value 230/3 - 30 = 140/3
C5_Witness ==
    /\ HasRun(insights)
    /\ ExpenseMonths(transactions, 1) = {Nov, Dec, Jan}
    /\ CategoryTotal(transactions, 1, Nov) = 100
    /\ CategoryTotal(transactions, 1, Dec) = 100
    /\ CategoryTotal(transactions, 1, Jan) = 30
    /\ Len(SavingsInsightsOf(insights.out, 1)) = 1
    /\ SavingsInsightsOf(insights.out, 1)[1].value = Rat(140, 3)

\* C6: the prediction of a category is the least-squares line through
\* (index, monthly total), zero-based, evaluated at the number of points (never
\* under 0); the totals 10, 20, 30 give the prediction 40 with confidence 1.
C6_LeastSquaresNextIndex ==
    HasRun(predictions) =>
        \A c \in ExpenseCategories(transactions) :
            LET y == MonthlySeries(transactions, c)
                p == PredictionsOf(predictions.out, c)
            IN  Len(y) >= 3 =>
                    /\ Len(p) = 1
                    /\ p[1].predictedAmount = MathMax(Num(0), LeastSquaresAt(y, Len(y)))
                    /\ y = <<Num(10), Num(20), Num(30)>> =>
                          /\ p[1].predictedAmount = Num(40)
                          /\ p[1].confidence = Num(1)

\* C7: no prediction is negative, and it is exactly 0 when the fitted line is
\* under 0 at the next index.
C7_PredictionNeverNegative ==
    HasRun(predictions) =>
        /\ \A i \in 1..Len(predictions.out) :
              /\ IsFinite(predictions.out[i].predictedAmount)
              /\ ~Lt(predictions.out[i].predictedAmount, Num(0))
        /\ \A c \in ExpenseCategories(transactions) :
              LET y == MonthlySeries(transactions, c)
              IN  (Len(y) >= 3 /\ Lt(LeastSquaresAt(y, Len(y)), Num(0))) =>
                      /\ Len(PredictionsOf(predictions.out, c)) = 1
                      /\ PredictionsOf(predictions.out, c)[1].predictedAmount = Num(0)

\* predict ran on a category whose fitted line is under 0 at the next index
\* and returned 0 for it
C7_Witness ==
    /\ HasRun(predictions)
    /\ \E c \in ExpenseCategories(transactions) :
          /\ Len(MonthlySeries(transactions, c)) >= 3
          /\ Lt(LeastSquaresAt(MonthlySeries(transactions, c),
                               Len(MonthlySeries(transactions, c))), Num(0))
          /\ PredictionsOf(predictions.out, c)[1].predictedAmount = Num(0)

\* C8: every confidence is a number in [0, 1], also for a fit with no variance.
C8_ConfidenceInUnitInterval ==
    HasRun(predictions) =>
        \A i \in 1..Len(predictions.out) :
            /\ IsFinite(predictions.out[i].confidence)
            /\ ~Lt(predictions.out[i].confidence, Num(0))
            /\ ~Gt(predictions.out[i].confidence, Num(1))

\* C9: in analyze's list the trend insight (at most one) comes first, then the
\* anomaly insights (one per flagged category), then the savings insights (one
\* per qualifying category).
InsightRank(insight) ==
    IF IsTrendInsight(insight) THEN 1 ELSE IF IsUnusualInsight(insight) THEN 2 ELSE 3

C9_TrendThenAnomaliesThenSavings ==
    HasRun(insights) =>
        /\ \A i, j \in 1..Len(insights.out) :
              i < j => InsightRank(insights.out[i]) <= InsightRank(insights.out[j])
        /\ Len(SelectSeq(insights.out, IsTrendInsight)) <= 1
        /\ \A c \in ExpenseCategories(transactions) :
              /\ Len(UnusualInsightsOf(insights.out, c)) <= 1
              /\ Len(SavingsInsightsOf(insights.out, c)) <= 1

\* analyze returned a trend insight, an anomaly insight and a savings insight
C9_Witness ==
    /\ HasRun(insights)
    /\ \E i \in 1..Len(insights.out) : IsTrendInsight(insights.out[i])
    /\ \E i \in 1..Len(insights.out) : IsUnusualInsight(insights.out[i])
    /\ \E i \in 1..Len(insights.out) : IsSavingsInsight(insights.out[i])

\* C10: income transactions never influence the output: each result is the
\* result for the list with its income transactions taken out.
C10_IncomeIgnored ==
    /\ HasRun(insights) =>
          insights.out = analyzeSpendingPatterns(SelectSeq(transactions, IsExpense), insights.at)
    /\ HasRun(predictions) =>
          predictions.out = predictNextMonthSpending(SelectSeq(transactions, IsExpense))

\* both functions ran on a list holding an income transaction and returned
\* an insight and a prediction
C10_Witness ==
    /\ \E i \in 1..Len(transactions) : transactions[i].type = "income"
    /\ HasRun(insights) /\ insights.out # <<>>
    /\ HasRun(predictions) /\ predictions.out # <<>>


\* C11: no branch of the engine divides by zero: a category whose historical
\* mean is 0 is short-circuited, so every insight carries a finite value (never
\* Infinity, -Infinity or NaN), and the trend is never computed from a previous
\* month's total of 0.
C11_NoInsightFromZeroDivisor ==
    HasRun(insights) =>
        /\ \A i \in 1..Len(insights.out) : IsFinite(insights.out[i].value)
        /\ IsFinite(analyzeSpendingTrend(calculateMonthlySpending(transactions),
                                         insights.at).percentage)

\* C12: on every finite list of well-formed transactions, the empty list
\* included, analyze and predict complete and return a list, raising no error;
\* a category with fewer than 3 months of expenses is skipped (it contributes
\* no savings insight and no prediction), not reported as an error.
C12_CompletesWithoutError ==
    /\ HasRun(insights) =>
          /\ insights.error = "none"
          /\ DOMAIN insights.out = 1..Len(insights.out)
    /\ HasRun(predictions) =>
          /\ predictions.error = "none"
          /\ DOMAIN predictions.out = 1..Len(predictions.out)
    /\ \A c \in ExpenseCategories(transactions) :
          Cardinality(ExpenseMonths(transactions, c)) < 3 =>
              /\ HasRun(insights) => SavingsInsightsOf(insights.out, c) = <<>>
              /\ HasRun(predictions) => PredictionsOf(predictions.out, c) = <<>>

\* both functions ran on the empty list and returned the empty list
C12_Witness ==
    /\ transactions = <<>>
    /\ HasRun(insights) /\ insights.error = "none" /\ insights.out = <<>>
    /\ HasRun(predictions) /\ predictions.error = "none" /\ predictions.out = <<>>

\* C13: predict returns exactly one CategoryPrediction for each category whose
\* expenses fall in at least 3 distinct calendar months and none for a category
\* with fewer; no category appears twice and nothing else is returned.
C13_OnePredictionPerCategory ==
    HasRun(predictions) =>
        /\ \A c \in ExpenseCategories(transactions) :
              Len(PredictionsOf(predictions.out, c))
                  = IF Cardinality(ExpenseMonths(transactions, c)) >= 3 THEN 1 ELSE 0
        /\ Len(predictions.out)
              = Cardinality({c \in ExpenseCategories(transactions) :
                                Cardinality(ExpenseMonths(transactions, c)) >= 3})

\* predict ran on two categories, one with 3 months (one prediction) and one
\* with 2 months (none)
C13_Witness ==
    /\ HasRun(predictions)
    /\ Cardinality(ExpenseMonths(transactions, 1)) = 3
    /\ Cardinality(ExpenseMonths(transactions, 2)) = 2
    /\ Len(predictions.out) = 1
    /\ predictions.out[1].categoryId = Num(1)

C16_OnlyConfidentPredictionsDisplayed ==
    [][(fetchDashboardData /\ Len(transactions') > 0) =>
          LET displayed == SelectSeq(dashboardInsights', IsPredictionInsight)
              returned == predictions'.out
          IN  /\ returned = predictNextMonthSpending(transactions')
              /\ \A i \in 1..Len(displayed) : \E j \in 1..Len(returned) :
                    /\ Gt(returned[j].confidence, Rat(7, 10))
                    /\ returned[j].categoryId.n \in categories'
                    /\ displayed[i].value = returned[j].predictedAmount
                    /\ displayed[i].message.category
                          = CategoryRow(returned[j].categoryId.n).name
              /\ \A j \in 1..Len(returned) :
                    ~Gt(returned[j].confidence, Rat(7, 10)) =>
                        \A i \in 1..Len(displayed) :
                            displayed[i].message.category
                                # CategoryRow(returned[j].categoryId.n).name]_vars

\* the page fetched a list and the category of its prediction; the engine
\* returned the prediction, of a confidence not above 0.7, and the page
\* displays the engine's insights without it
C16_Witness ==
    /\ categories = {1}
    /\ HasRun(predictions) /\ Len(predictions.out) = 1
    /\ predictions.out = predictNextMonthSpending(transactions)
    /\ ~Gt(predictions.out[1].confidence, Rat(7, 10))
    /\ dashboardInsights # <<>>
    /\ dashboardInsights = analyzeSpendingPatterns(transactions, now)

\* C17: for every category, the history detectUnusualSpending takes the mean
\* and the deviation of is exactly the category's monthly expense totals of
\* the calendar months other than the current one (so the category is
\* evaluated iff there are at least 3 such months), and the current-month
\* spend is the category's total of the current month.
C17_HistoryIsTheOtherMonths ==
    HasRun(insights) =>
        \A c \in ExpenseCategories(transactions) :
            LET categoryTransactions == groupTransactionsByCategory(transactions)[c]
                history == calculateMonthlyAverages(categoryTransactions)
                months == ExpenseMonths(transactions, c) \ {insights.at}
            IN  /\ Len(history) = Cardinality(months)
                /\ \A month \in months :
                      Cardinality({i \in 1..Len(history) :
                                      history[i] = Num(CategoryTotal(transactions, c, month))})
                          = Cardinality({other \in months :
                                            CategoryTotal(transactions, c, other)
                                                = CategoryTotal(transactions, c, month)})
                /\ calculateCurrentMonthSpending(categoryTransactions, insights.at)
                      = Num(CategoryTotal(transactions, c, insights.at))

\* C18: when the previous calendar month's expense total is not 0,
\* analyzeSpendingTrend compares the current calendar month's total with that
\* of its calendar predecessor (December of the year before for January),
\* computes (current - previous) / previous * 100, says 'up' iff that is
\* strictly positive and 'down' otherwise (also for a change of exactly 0),
\* and reports its absolute value: the percentage is never negative.
C18_TrendAgainstCalendarPredecessor ==
    HasRun(insights) =>
        LET current == ExpenseTotal(transactions, insights.at)
            previous == ExpenseTotal(transactions,
                                     IF insights.at = Jan THEN Dec ELSE subMonths(insights.at))
            change == Rat(100 * (current - previous), previous)
            spendingTrend == analyzeSpendingTrend(calculateMonthlySpending(transactions),
                                                  insights.at)
        IN  previous # 0 =>
                /\ spendingTrend.trend = IF Sign(change) > 0 THEN "up" ELSE "down"
                /\ spendingTrend.percentage = MathAbs(change)
                /\ IsFinite(spendingTrend.percentage)
                /\ ~Lt(spendingTrend.percentage, Num(0))

\* analyze ran in January on a list whose December (of the year before) and
\* January totals are the same and not 0: the trend is 'down' with 0
C18_Witness ==
    /\ HasRun(insights) /\ insights.at = Jan
    /\ ExpenseTotal(transactions, Dec) > 0
    /\ ExpenseTotal(transactions, Jan) = ExpenseTotal(transactions, Dec)
    /\ analyzeSpendingTrend(calculateMonthlySpending(transactions), Jan)
          = [trend |-> "down", percentage |-> Num(0)]

\* C19: analyze emits at most one trend insight, and emits it iff the
\* absolute percentage change is strictly above 10: a 'warning' with trend
\* 'up' for an increase, a 'success' with trend 'down' for a decrease, each
\* with the absolute percentage as its value; a change of exactly 10% or less
\* (and a previous month of 0) gives no trend insight.
C19_TrendInsightAboveTenPercent ==
    HasRun(insights) =>
        LET current == ExpenseTotal(transactions, insights.at)
            previous == ExpenseTotal(transactions, subMonths(insights.at))
            change == IF previous = 0 THEN Num(0)
                      ELSE Rat(100 * (current - previous), previous)
            trends == SelectSeq(insights.out, IsTrendInsight)
        IN  /\ Len(trends) = IF Gt(MathAbs(change), Num(10)) THEN 1 ELSE 0
            /\ Gt(change, Num(10)) =>
                  /\ trends[1].type = "warning" /\ trends[1].trend = "up"
                  /\ trends[1].message.text = "increased"
                  /\ trends[1].value = change
            /\ Lt(change, Num(-10)) =>
                  /\ trends[1].type = "success" /\ trends[1].trend = "down"
                  /\ trends[1].message.text = "reduced"
                  /\ trends[1].value = Neg(change)

\* analyze ran in January on a December of 100 and a January of 110, a change
\* of exactly 10%, and emitted no trend insight
C19_Witness ==
    /\ HasRun(insights) /\ insights.at = Jan
    /\ ExpenseTotal(transactions, Dec) = 100
    /\ ExpenseTotal(transactions, Jan) = 110
    /\ \A i \in 1..Len(insights.out) : ~IsTrendInsight(insights.out[i])

\* C20: calculateMonthlySpending maps each calendar year-month of a
\* transaction's date that has an expense to the sum of the month's expense
\* amounts: one key per such month and no other key, whatever the order of
\* the list; the values add up to the sum of all expense amounts; the empty
\* list gives the empty mapping.
C20_MonthlySpendingByCalendarMonth ==
    HasRun(insights) =>
        LET monthlySpending == calculateMonthlySpending(transactions)
            months == {MonthOf(transactions[i].date) : i \in ExpensePositions(transactions)}
        IN  /\ {monthlySpending[i].key : i \in 1..Len(monthlySpending)}
                  = {format(month) : month \in months}
            /\ Len(monthlySpending) = Cardinality(months)
            /\ \A month \in months :
                  MapGet(monthlySpending, format(month))
                      = Num(ExpenseTotal(transactions, month))
            /\ Sum(MapValues(monthlySpending))
                  = Num(AmountSum(transactions, ExpensePositions(transactions)))
            /\ transactions = <<>> => monthlySpending = <<>>

\* the name its messages should give a category: the name of the row joined
\* to the category's expenses, "Uncategorized" when no row was joined
ResolvedName(txs, c) ==
    LET rows == {txs[i].category : i \in {j \in ExpensePositions(txs) : txs[j].category_id = c}}
    IN  IF \E row \in rows : row # NoCategory
        THEN (CHOOSE row \in rows : row # NoCategory).name
        ELSE Uncategorized

\* the categories detectUnusualSpending flags, and those findSavingsOpportunities reports
FlaggedCategories(txs, today) ==
    {c \in ExpenseCategories(txs) : UnusualOf(groupTransactionsByCategory(txs)[c], today) # <<>>}
SavingsCategories(txs) ==
    {c \in ExpenseCategories(txs) : SavingsOf(groupTransactionsByCategory(txs)[c]) # <<>>}

\* C21: each flagged category yields exactly one anomaly insight, of type
\* 'warning' and trend 'up', whose message names the category by the name of
\* its joined row, or by "Uncategorized" when the category reference is absent
\* or unresolved; the savings insights name their category the same way.
C21_InsightsNameTheCategory ==
    (HasRun(insights) /\ insights.error = "none") =>
        LET out == insights.out
            flagged == FlaggedCategories(transactions, insights.at)
            saving == SavingsCategories(transactions)
            names == {ResolvedName(transactions, c) : c \in ExpenseCategories(transactions)}
        IN  /\ Len(SelectSeq(out, IsUnusualInsight)) = Cardinality(flagged)
            /\ Len(SelectSeq(out, IsSavingsInsight)) = Cardinality(saving)
            /\ \A i \in 1..Len(out) :
                  IsUnusualInsight(out[i]) => out[i].type = "warning" /\ out[i].trend = "up"
            /\ \A name \in names :
                  /\ Len(SelectSeq(out, LAMBDA s : IsUnusualInsight(s) /\ s.message.category = name))
                        = Cardinality({c \in flagged : ResolvedName(transactions, c) = name})
                  /\ Len(SelectSeq(out, LAMBDA s : IsSavingsInsight(s) /\ s.message.category = name))
                        = Cardinality({c \in saving : ResolvedName(transactions, c) = name})

\* analyze has flagged category 1 and a category with no reference, and has
\* named one by its row and the other "Uncategorized", in both kinds of insight
C21_Witness ==
    /\ HasRun(insights)
    /\ FlaggedCategories(transactions, insights.at) = {1, Null}
    /\ \E i, j \in 1..Len(insights.out) :
          /\ IsUnusualInsight(insights.out[i])
          /\ insights.out[i].message.category = CategoryRow(1).name
          /\ IsUnusualInsight(insights.out[j])
          /\ insights.out[j].message.category = Uncategorized
    /\ \E i \in 1..Len(insights.out) :
          IsSavingsInsight(insights.out[i]) /\ insights.out[i].message.category = Uncategorized

\* the orders a list can be handed over in
Reorderings(list) ==
    {[i \in 1..Len(list) |-> list[order[i]]] : order \in Permutations(1..Len(list))}

\* the predictions of a call as a set, and the categories an analyze flagged
\* with their percentages
PredictionSet(out) == {out[i] : i \in 1..Len(out)}
AnomalyFlags(out) ==
    {[name |-> out[i].message.category, percentage |-> out[i].value] :
        i \in {j \in 1..Len(out) : IsUnusualInsight(out[j])}}

\* C22: the results do not depend on the order of the list: on every
\* reordering of the transactions predict returns the same set of
\* predictions and analyze flags the same categories with the same
\* percentages, a date-descending list and the same list ascending included.
C22_OrderIndependent ==
    /\ HasRun(predictions) =>
          \A reordered \in Reorderings(transactions) :
              PredictionSet(predictNextMonthSpending(reordered)) = PredictionSet(predictions.out)
    /\ HasRun(insights) =>
          \A reordered \in Reorderings(transactions) :
              AnomalyFlags(analyzeSpendingPatterns(reordered, insights.at))
                  = AnomalyFlags(insights.out)

\* the positions at which an expense of category c brings a month the
\* category's earlier expenses did not have
FirstOfMonthPositions(txs, c) ==
    {i \in ExpensePositions(txs) :
        /\ txs[i].category_id = c
        /\ \A j \in ExpensePositions(txs) :
              (j < i /\ txs[j].category_id = c) => MonthOf(txs[j].date) # MonthOf(txs[i].date)}

\* a set of positions as the list of its elements, ascending
RECURSIVE InOrder(_)
InOrder(positions) ==
    IF positions = {} THEN <<>>
    ELSE LET first == CHOOSE i \in positions : \A j \in positions : i <= j
         IN  <<first>> \o InOrder(positions \ {first})

\* the regression points of category c: one total per month that has an
\* expense, at the position the month takes in the list
RegressionPoints(txs, c) ==
    LET positions == InOrder(FirstOfMonthPositions(txs, c))
    IN  [i \in 1..Len(positions) |->
            Num(CategoryTotal(txs, c, MonthOf(txs[positions[i]].date)))]

\* the list with each category's months closed up: the n-th month of a
\* category that has an expense becomes the n-th month from its first
MonthIndex(month) == month.y * 12 + month.m - 1
MonthAt(index) == [y |-> index \div 12, m |-> (index % 12) + 1]
ClosedUp(txs) ==
    [i \in 1..Len(txs) |->
        IF txs[i].type # "expense" THEN txs[i]
        ELSE LET months == ExpenseMonths(txs, txs[i].category_id)
                 month == MonthOf(txs[i].date)
                 first == CHOOSE e \in months : \A o \in months : MonthIndex(e) <= MonthIndex(o)
                 rank == Cardinality({e \in months : MonthIndex(e) < MonthIndex(month)})
                 closed == MonthAt(MonthIndex(first) + rank)
             IN  [txs[i] EXCEPT !.date = [y |-> closed.y, m |-> closed.m, d |-> txs[i].date.d]]]

\* C23: for a category with expenses in k >= 3 distinct calendar months,
\* predict fits exactly k points, one per month that has an expense, indexed
\* 0..k-1 by position, and evaluates the line at k; a month with no expense
\* gives no point and no gap in the indexes, so the prediction is that of the
\* same totals in consecutive months.
C23_OnePointPerMonthWithExpense ==
    HasRun(predictions) =>
        /\ \A c \in ExpenseCategories(transactions) :
              LET y == RegressionPoints(transactions, c)
                  k == Cardinality(ExpenseMonths(transactions, c))
                  p == PredictionsOf(predictions.out, c)
              IN  /\ Len(y) = k
                  /\ Len(MonthlySeries(transactions, c)) = k
                  /\ k >= 3 =>
                        /\ Len(p) = 1
                        /\ p[1].predictedAmount = MathMax(Num(0), LeastSquaresAt(y, k))
        /\ predictNextMonthSpending(ClosedUp(transactions)) = predictions.out

\* predict has run on the totals 10, 20, 30 of October, November and January,
\* December having no expense, and has returned 40
C23_Witness ==
    /\ HasRun(predictions)
    /\ ExpenseMonths(transactions, 1) = {Oct, Nov, Jan}
    /\ RegressionPoints(transactions, 1) = <<Num(10), Num(20), Num(30)>>
    /\ ClosedUp(transactions) # transactions
    /\ Len(predictions.out) = 1
    /\ predictions.out[1].predictedAmount = Num(40)

\* a category_id as the value a prediction should carry: the number, or null
IdValue(category_id) ==
    IF category_id = Null THEN [k |-> "null", n |-> 0, d |-> 0] ELSE Num(category_id)

\* C24: every prediction carries a categoryId equal to the category_id of at
\* least one expense transaction of the input, inputs whose expenses have a
\* null category reference and 3 months of history included.
C24_CategoryIdOfAnExpense ==
    HasRun(predictions) =>
        \A i \in 1..Len(predictions.out) :
            \E j \in ExpensePositions(transactions) :
                predictions.out[i].categoryId = IdValue(transactions[j].category_id)

\* C25: syncPendingTransactions removes a pending transaction only after
\* syncFn has resolved for it in the same call; when syncFn rejects, the call
\* removes nothing, the error does not end the call, and every later pending
\* transaction is still attempted: a call returns having attempted all it read.
C25_RemovedOnlyAfterSynced ==
    [][/\ \A t \in store \ store' :
             \E r \in Runs : /\ run[r].pc = "remove"
                              /\ Current(r) = t
                              /\ t \in run[r].synced
       /\ \A r \in Runs :
             /\ syncFnRejects(r) =>
                   /\ store' = store
                   /\ run'[r].pc = "syncFn"
                   /\ run'[r].i = run[r].i + 1
             /\ (run[r].pc # "idle" /\ run'[r].pc = "idle") =>
                   run'[r].attempted = run'[r].pending]_vars

\* a call has returned after syncFn rejected for its first transaction, which
\* is still stored, and resolved for its second, which is removed
C25_Witness ==
    \E r \in Runs :
        /\ run[r].pc = "idle"
        /\ run[r].attempted = <<1, 2>>
        /\ run[r].synced = {2}
        /\ 1 \in store
        /\ 2 \notin store

\* C26: each pending transaction is passed to syncFn successfully at most
\* once overall, also when two calls of syncPendingTransactions overlap: no
\* pending transaction is uploaded twice.
C26_UploadedAtMostOnce ==
    \A t \in 1..MaxPending : uploads[t] <= 1

\* C27: with no new transaction saved and a syncFn that eventually succeeds
\* for every pending transaction, repeated calls eventually leave the store
\* empty; each call ends, having attempted every transaction that was pending
\* when it started exactly once, in store order.
C27_RepeatedRunsEmptyTheStore ==
    /\ <>[](store = {})
    /\ \A r \in Runs : (run[r].pc # "idle") ~> (run[r].pc = "idle")
    /\ [](\A r \in Runs :
            /\ run[r].attempted = SubSeq(run[r].pending, 1, Len(run[r].attempted))
            /\ run[r].pc = "idle" => run[r].attempted = run[r].pending
            /\ \A i, j \in 1..Len(run[r].pending) :
                  i < j => run[r].pending[i] < run[r].pending[j])

\* the store has been emptied by calls of which one attempted three pending
\* transactions in key order
C27_Witness ==
    /\ store = {}
    /\ \A t \in 1..MaxPending : uploads[t] >= 1
    /\ \E r \in Runs : run[r].pc = "idle" /\ run[r].attempted = <<1, 2, 3>>

\* C28: after any sequence of create submissions, overlapping ones for the
\* same category and month included, the budgets table holds at most one
\* budget per category and month of the user; a submission that finds an
\* existing budget inserts nothing and reports that the budget already exists.
C28_OneBudgetPerCategoryAndMonth ==
    [][/\ \A key \in BudgetKeys : budgets'[key] <= 1
       /\ \A s \in Forms :
             LET found == budgets[<<form[s].category_id, form[s].month>>] > 0
             IN  (form[s].pc = "check" /\ form'[s] # form[s] /\ found) =>
                     /\ budgets' = budgets
                     /\ form'[s].pc = "idle"
                     /\ form'[s].message \in
                           {"A budget for this category and month already exists",
                            "Failed to create budget"}]_vars

\* C29: handleDelete never deletes a category that a transaction or a budget
\* references, a reference made between the counts and the delete request
\* included: the delete request is issued only after both counts were read as
\* zero, an error in a count ends the call, and the local list drops the
\* category only when the delete request has succeeded.
C29_ReferencedCategoryNeverDeleted ==
    [][/\ \A id \in categoryRows \ categoryRows' :
             /\ transactionRows[id] = 0
             /\ BudgetsOfCategory(id) = 0
             /\ \E h \in Deletes : del[h].pc = "delete" /\ del[h].id = id /\ del[h].counted = 2
       /\ \A h \in Deletes :
             /\ (del[h].pc # "countBudgets" /\ del'[h].pc = "countBudgets") =>
                   del[h].pc = "countTransactions" /\ transactionRows[del[h].id] = 0
             /\ (del[h].pc # "delete" /\ del'[h].pc = "delete") =>
                   del[h].pc = "countBudgets" /\ BudgetsOfCategory(del[h].id) = 0
       /\ \A id \in localCategories \ localCategories' :
             /\ id \notin categoryRows'
             /\ \E h \in Deletes : /\ del[h].pc = "delete"
                                    /\ del'[h].message = "Category deleted"]_vars

\* a call read both counts as zero, a transaction referencing its category
\* was inserted before its delete request, the request failed and the category
\* is still stored and listed; the other category has been deleted
C29_Witness ==
    \E h \in Deletes :
        /\ del[h].pc = "idle"
        /\ del[h].counted = 2
        /\ del[h].message = "Failed to delete category"
        /\ transactionRows[del[h].id] > 0
        /\ del[h].id \in categoryRows
        /\ del[h].id \in localCategories
        /\ categoryRows # BudgetCategories

\* C30: fetchDashboardData sets isLoading and isAnalyzing to true at its
\* start and on every path, success, query error or exception in the engine,
\* eventually sets both back to false; the insights are replaced only by a
\* successful fetch that returned at least one transaction, and a failed fetch
\* leaves transactions, categories, stats and insights unchanged.
C30_LoadingFlagsAndFailedFetch ==
    /\ [][\A f \in Fetches :
             /\ (fetch[f].pc = "idle" /\ fetch'[f].pc # "idle") => isLoading' /\ isAnalyzing'
             /\ (fetch[f].pc # "idle" /\ fetch'[f].pc = "idle") => ~isLoading' /\ ~isAnalyzing'
             /\ (fetch[f].pc # "idle" /\ fetch'[f].pc = "idle" /\ fetch'[f].failed = "query") =>
                   UNCHANGED <<transactions, categories, stats, dashboardInsights>>]_vars
    /\ [][dashboardInsights' # dashboardInsights =>
             \E f \in Fetches : /\ fetch[f].pc = "predict"
                                /\ fetch'[f].pc = "idle"
                                /\ fetch'[f].failed = "none"
                                /\ Len(fetch[f].transactionsData) > 0]_vars
    /\ \A f \in Fetches : (fetch[f].pc # "idle") ~> (fetch[f].pc = "idle")

\* after a fetch that displayed insights, a later call failed on a query: both
\* flags are false again and the page still holds the rows, the stats and the
\* insights of the earlier fetch
C30_Witness ==
    /\ \E f \in Fetches : fetch[f].pc = "idle" /\ fetch[f].failed = "query"
    /\ \A f \in Fetches : fetch[f].pc = "idle"
    /\ ~isLoading /\ ~isAnalyzing
    /\ Len(transactions) > 0
    /\ stats = StatsOf(transactions)
    /\ stats # NoStats
    /\ dashboardInsights # <<>>

============================================================================
